---------------------------- MODULE Spec2Model ----------------------------
(***************************************************************************)
(* A model of modules/codec/libass.c: the region partitioner BuildRegions, *)
(* the rasterizer RegionDraw, the subpicture updater SubpictureUpdate and  *)
(* the decoder with its reference-counted decoder_sys_t.                   *)
(*                                                                         *)
(* The specifications that share the module:                               *)
(*   SpecBuild   one call of BuildRegions, statement group by statement    *)
(*               group, on every fragment list drawn from ImgLists;        *)
(*   SpecUpdate  a sequence of SubpictureUpdate calls on one subpicture;   *)
(*   SpecDraw    one call of RegionDraw, fragment by fragment, on a pixel  *)
(*               buffer;                                                   *)
(*   SpecBlend   the blend of one sample on one pixel of RegionDraw;       *)
(*   SpecSys     the decoder thread and the subpicture consumer's thread   *)
(*               on one decoder_sys_t, lock by lock.                       *)
(* SpecBuildFair and SpecSysFair are SpecBuild and SpecSys with threads    *)
(* that go on running.                                                     *)
(* C arrays are indexed from 0, the sequences here from 1: entry k of an   *)
(* array is element k+1 of its sequence.  A NULL entry of pp_img is 0.     *)
(***************************************************************************)
EXTENDS Integers, Sequences, FiniteSets, TLC

VARIABLES
    \* ---- BuildRegions (SpecBuild)
    bpc,            \* position in BuildRegions
    imgs,           \* p_img_list, the fragment list (<<>> is NULL)
    i_max_region,   \* the caller's i_max_region
    i_width,        \* canvas width handed to BuildRegions
    i_height,       \* canvas height handed to BuildRegions
    pp_img,         \* scratch array: indices into imgs, 0 once assigned
    region,         \* the local array region[i_max_region+1], entries 0..i_region-1
    i_used,         \* number of fragments assigned so far
    n,              \* index of the growth scan (1-based)
    b_ok,           \* whether the current scan absorbed a fragment
    p_region,       \* the caller's output array: entry index -> rectangle written
    ret,            \* the value BuildRegions returned
    \* ---- SubpictureUpdate (SpecUpdate)
    upc,            \* position in SubpictureUpdate ("idle": not in a call)
    lock,           \* p_sys->lock is held
    regions,        \* p_subpic->regions, the subpicture's region list
    p_img,          \* the list ass_render_frame returned (<<>> is NULL)
    i_changed,      \* the change flag ass_render_frame set
    b_fmt_src,      \* source geometry differs from cfg->prev_src
    b_fmt_dst,      \* destination format differs from cfg->prev_dst
    u_region,       \* the array region[i_max_region] BuildRegions filled
    i_region,       \* the count BuildRegions returned
    u_i,            \* i, the index of the region loop
    last_has_img,   \* history: whether the previous call's list was not NULL
    u_ret,          \* history: the return path the last call took
    alloc_failed,   \* history: an allocation failed in the last call
    \* ---- RegionDraw (SpecDraw)
    dpc,            \* position in RegionDraw
    d_region,       \* p_region: [i_x, i_y, i_width, i_height]
    pixels,         \* p->p_pixels: pixel <<x, y>> -> <<dst[0], dst[1], dst[2], dst[3]>>
    d_img,          \* the fragment the loop handled last
    d_len,          \* number of fragments handled so far
    d_written,      \* history: the pixels <<x, y>> the last fragment stored to
    \* ---- decoder and subpicture consumer (SpecSys)
    dec_pc,         \* position of the decoder thread
    spu_pc,         \* position of the subpicture consumer's thread
    mutex,          \* p_sys->lock: "none" or the thread holding it
    i_refcount,     \* p_sys->i_refcount
    i_last_pts,     \* p_sys->i_last_pts
    i_max_stop,     \* p_sys->i_max_stop
    p_block,        \* the block DecodeBlock is handling (<<>>: none)
    p_spu,          \* p_spu of DecodeBlock: index in spus, 0 is NULL
    spus,           \* the subpictures created, in the order of their creation
    spu_cur,        \* the subpicture the consumer is working on (0: none)
    spu_path,       \* history: return path of the last SubpictureUpdate
    n_blocks,       \* number of DecodeBlock and Flush calls made
    n_flush,        \* history: number of resets (Flush, corrupted block)
    n_chunks,       \* number of chunks fed to the track
    n_freed,        \* history: how many times decoder_sys_t was freed
    b_stale,        \* history: decoder_sys_t was used after it was freed
    dec_ret         \* history: what the last DecodeBlock or Flush call did

bvars == <<bpc, imgs, i_max_region, i_width, i_height, pp_img, region, i_used,
           n, b_ok, p_region, ret>>

uvars == <<upc, lock, regions, p_img, i_changed, b_fmt_src, b_fmt_dst, u_region,
           i_region, u_i, last_has_img, u_ret, alloc_failed>>

dvars == <<dpc, d_region, pixels, d_img, d_len, d_written>>

svars == <<dec_pc, spu_pc, mutex, i_refcount, i_last_pts, i_max_stop, p_block,
           p_spu, spus, spu_cur, spu_path, n_blocks, n_flush, n_chunks, n_freed,
           b_stale, dec_ret>>

vars == <<bvars, uvars, dvars, svars>>

-----------------------------------------------------------------------------
(* Bounds of the model *)

\* longest fragment list handed to BuildRegions in SpecBuild
MaxImg == 3
\* largest i_max_region tried in SpecBuild
MaxK == 2

(* Program constants *)
INT_MAX == 2147483647
\* the floor of both proximity increments
MinInc == 32

-----------------------------------------------------------------------------
(* Helpers: __MIN, __MAX *)
Min(a, b) == IF a < b THEN a ELSE b
Max(a, b) == IF a > b THEN a ELSE b

(* rectangle_t and its helpers *)
r_create(x0, y0, x1, y1) == [x0 |-> x0, y0 |-> y0, x1 |-> x1, y1 |-> y1]

\* r_img that takes the box one column too wide
r_img_Wide(img) ==
    r_create(img.dst_x, img.dst_y, img.dst_x + img.w + 1, img.dst_y + img.h)

r_img(img) ==
    r_create(img.dst_x, img.dst_y, img.dst_x + img.w, img.dst_y + img.h)

\* r_add that forgets to move the right edge
r_add_NoRight(r, a) ==
    [x0 |-> Min(r.x0, a.x0), y0 |-> Min(r.y0, a.y0),
     x1 |-> r.x1, y1 |-> Max(r.y1, a.y1)]

r_add(r, a) ==
    [x0 |-> Min(r.x0, a.x0), y0 |-> Min(r.y0, a.y0),
     x1 |-> Max(r.x1, a.x1), y1 |-> Max(r.y1, a.y1)]

r_surface(r) == (r.x1 - r.x0) * (r.y1 - r.y0)

\* r_overlap with <= for <: rectangles that only touch after expansion merge
r_overlap_Touching(a, b, i_dx, i_dy) ==
    /\ Max(a.x0 - i_dx, b.x0) <= Min(a.x1 + i_dx, b.x1)
    /\ Max(a.y0 - i_dy, b.y0) <= Min(a.y1 + i_dy, b.y1)

r_overlap(a, b, i_dx, i_dy) ==
    /\ Max(a.x0 - i_dx, b.x0) < Min(a.x1 + i_dx, b.x1)
    /\ Max(a.y0 - i_dy, b.y0) < Min(a.y1 + i_dy, b.y1)


-----------------------------------------------------------------------------
(* BuildRegions: the pieces of its body, as operators on the local state   *)
(* S = [pp_img, region, i_used, b_ok, failed].                             *)

\* the counting test without its height half
ImgCounted_WidthOnly(img) == img.w > 0

\* the test of both counting loops: a fragment enters pp_img
ImgCounted(img) == img.w > 0 /\ img.h > 0

\* the second loop over p_img_list: pp_img holds the counted fragments in
\* list order (as indices into the list)
CountImgs(p_img_list) ==
    SelectSeq([i \in 1..Len(p_img_list) |-> i],
              LAMBDA i : ImgCounted(p_img_list[i]))

\* the proximity increments
i_w_inc(width) == Max((width + 49) \div 50, MinInc)
i_h_inc(height) == Max((height + 99) \div 100, MinInc)
\* "int i_maxh = i_w_inc; int i_maxw = i_h_inc;"
i_maxh(width) == i_w_inc(width)
i_maxw(height) == i_h_inc(height)

\* the first scratch entry that is not NULL
FirstImg(pp) ==
    CHOOSE m \in 1..Len(pp) : pp[m] # 0 /\ \A j \in 1..(m - 1) : pp[j] = 0

\* the seed that forgets "pp_img[n] = NULL; i_used++"
SeedRegion_NoMark(S, p_img_list, max_region) ==
    IF ~(Len(S.region) < max_region + 1)
    THEN [S EXCEPT !.failed = TRUE]
    ELSE LET m == FirstImg(S.pp_img)
         IN [S EXCEPT !.region = Append(@, r_img(p_img_list[S.pp_img[m]]))]

\* the seed: assert, region[i_region++] = r_img(pp_img[n]), pp_img[n] = NULL
SeedRegion(S, p_img_list, max_region) ==
    IF ~(Len(S.region) < max_region + 1)
    THEN [S EXCEPT !.failed = TRUE]
    ELSE LET m == FirstImg(S.pp_img)
         IN [S EXCEPT !.region = Append(@, r_img(p_img_list[S.pp_img[m]])),
                      !.pp_img[m] = 0,
                      !.i_used = @ + 1]

\* the loop over k: the region a fragment rectangle r is added to, 0 if none
RECURSIVE BestRegion(_, _, _, _, _, _, _)
BestRegion(reg, r, k, i_best, i_best_s, i_dx, i_dy) ==
    IF k > Len(reg) THEN i_best
    ELSE IF ~r_overlap(reg[k], r, i_dx, i_dy)
         THEN BestRegion(reg, r, k + 1, i_best, i_best_s, i_dx, i_dy)
         ELSE LET s == r_surface(r)
              IN IF s < i_best_s
                 THEN BestRegion(reg, r, k + 1, k, s, i_dx, i_dy)
                 ELSE BestRegion(reg, r, k + 1, i_best, i_best_s, i_dx, i_dy)

\* the body of the scan loop for scratch entry m
ScanImg(S, m, p_img_list, width, height) ==
    IF S.pp_img[m] = 0 THEN S
    ELSE LET r == r_img(p_img_list[S.pp_img[m]])
             i_best == BestRegion(S.region, r, 1, 0, INT_MAX,
                                  i_maxw(height), i_maxh(width))
         IN IF i_best >= 1
            THEN [S EXCEPT !.region[i_best] = r_add(@, r),
                           !.pp_img[m] = 0,
                           !.i_used = @ + 1,
                           !.b_ok = TRUE]
            ELSE S

\* merge best where the last pair of least ds wins
RECURSIVE MergeBest_LastWins(_, _, _, _)
MergeBest_LastWins(reg, i, j, best) ==
    IF i > Len(reg) THEN best
    ELSE IF j > Len(reg) THEN MergeBest_LastWins(reg, i + 1, i + 2, best)
    ELSE LET rect == r_add(reg[i], reg[j])
             ds == r_surface(rect) - r_surface(reg[i]) - r_surface(reg[j])
         IN MergeBest_LastWins(reg, i, j + 1,
                      IF ds <= best.ds THEN [i |-> i, j |-> j, ds |-> ds] ELSE best)

\* the double loop "merge best": the pair (i, j) of least ds, first found
RECURSIVE MergeBest(_, _, _, _)
MergeBest(reg, i, j, best) ==
    IF i > Len(reg) THEN best
    ELSE IF j > Len(reg) THEN MergeBest(reg, i + 1, i + 2, best)
    ELSE LET rect == r_add(reg[i], reg[j])
             ds == r_surface(rect) - r_surface(reg[i]) - r_surface(reg[j])
         IN MergeBest(reg, i, j + 1,
                      IF ds < best.ds THEN [i |-> i, j |-> j, ds |-> ds] ELSE best)

\* the collapse test off by one
OverCap_OffByOne(reg, max_region) == Len(reg) > max_region + 1

\* whether the collapse runs
OverCap(reg, max_region) == Len(reg) > max_region

\* the collapse that adds slot j to slot i and leaves slot j in place
MergeRegions_KeepsSlot(reg, max_region) ==
    IF ~OverCap(reg, max_region) THEN reg
    ELSE LET best == MergeBest(reg, 1, 2, [i |-> 0, j |-> 0, ds |-> INT_MAX])
         IN IF best.i >= 1 /\ best.j >= 1
            THEN [reg EXCEPT ![best.i] = r_add(@, reg[best.j])]
            ELSE reg

\* the collapse that removes slot j without adding it to slot i
MergeRegions_NoUnion(reg, max_region) ==
    IF ~OverCap(reg, max_region) THEN reg
    ELSE LET best == MergeBest(reg, 1, 2, [i |-> 0, j |-> 0, ds |-> INT_MAX])
         IN IF best.i >= 1 /\ best.j >= 1
            THEN SubSeq(reg, 1, best.j - 1) \o SubSeq(reg, best.j + 1, Len(reg))
            ELSE reg

\* "if( i_region > i_max_region ) { merge best; memmove; i_region--; }"
MergeRegions(reg, max_region) ==
    IF ~OverCap(reg, max_region) THEN reg
    ELSE LET best == MergeBest(reg, 1, 2, [i |-> 0, j |-> 0, ds |-> INT_MAX])
         IN IF best.i >= 1 /\ best.j >= 1
            THEN LET merged == [reg EXCEPT ![best.i] = r_add(@, reg[best.j])]
                 IN SubSeq(merged, 1, best.j - 1)
                        \o SubSeq(merged, best.j + 1, Len(merged))
            ELSE reg

\* the final copy "p_region[n] = region[n]": the entries written (0-based)
CopyRegions(reg) == [i \in 0..(Len(reg) - 1) |-> reg[i + 1]]

\* the local state after the scratch array is filled
StartState(p_img_list) ==
    [pp_img |-> CountImgs(p_img_list), region |-> <<>>, i_used |-> 0,
     b_ok |-> FALSE, failed |-> FALSE]

\* one pass "for( n = 0; n < i_count; n++ )" of the growth loop
RECURSIVE ScanAll(_, _, _, _, _)
ScanAll(S, m, p_img_list, width, height) ==
    IF m > Len(S.pp_img) THEN S
    ELSE ScanAll(ScanImg(S, m, p_img_list, width, height), m + 1,
                 p_img_list, width, height)

\* "do { ... } while( b_ok )"
RECURSIVE Grow(_, _, _, _)
Grow(S, p_img_list, width, height) ==
    LET T == ScanAll([S EXCEPT !.b_ok = FALSE], 1, p_img_list, width, height)
    IN IF T.b_ok THEN Grow(T, p_img_list, width, height) ELSE T

\* "for( int i_used = 0; i_used < i_count; )"
RECURSIVE Partition(_, _, _, _, _)
Partition(S, p_img_list, max_region, width, height) ==
    IF S.failed \/ ~(S.i_used < Len(S.pp_img)) THEN S
    ELSE LET A == SeedRegion(S, p_img_list, max_region)
         IN IF A.failed THEN A
            ELSE LET G == Grow(A, p_img_list, width, height)
                 IN Partition([G EXCEPT !.region = MergeRegions(@, max_region)],
                              p_img_list, max_region, width, height)

\* BuildRegions as a whole: what it returns and what it writes to p_region.
\* calloc_ok is the outcome of the calloc of pp_img.
BuildRegions(max_region, p_img_list, width, height, calloc_ok) ==
    IF Len(CountImgs(p_img_list)) <= 0 \/ ~calloc_ok
    THEN [ret |-> 0, p_region |-> CopyRegions(<<>>), aborted |-> FALSE]
    ELSE LET F == Partition(StartState(p_img_list), p_img_list, max_region,
                            width, height)
         IN IF F.failed
            THEN [ret |-> 0, p_region |-> CopyRegions(<<>>), aborted |-> TRUE]
            ELSE [ret |-> Len(F.region), p_region |-> CopyRegions(F.region),
                  aborted |-> FALSE]


-----------------------------------------------------------------------------
(* SpecBuild: one call of BuildRegions, step by step.                      *)

\* a fragment as BuildRegions reads it
Img(x, y, w, h) == [dst_x |-> x, dst_y |-> y, w |-> w, h |-> h]

\* The fragments the lists of SpecBuild are made of.  Around the 10x10
\* fragment at the origin: horizontal gaps of 31, 32 and 36, vertical gaps
\* of 36 and 64, a far fragment, and two fragments of no area.
BuildImgs ==
    { Img(0, 0, 10, 10), Img(41, 0, 10, 10), Img(42, 0, 10, 10),
      Img(46, 0, 10, 10), Img(0, 46, 10, 10), Img(0, 74, 10, 10),
      Img(200, 200, 10, 10), Img(300, 0, 0, 10), Img(0, 300, 10, 0) }

\* canvas sizes (i_width, i_height): both increments at their floor (32,
\* 32), the width increment above it (77, 32), the height increment above
\* it (32, 40)
Canvases == { <<1000, 1000>>, <<3840, 2160>>, <<1000, 4000>> }

\* Five scattered fragments: two far corners, two neighbours lying between
\* them (10 apart from each other, 90 from the corners), and one fragment
\* off to the right.
SpreadImgs ==
    { Img(0, 0, 10, 10), Img(200, 200, 10, 10), Img(100, 100, 10, 10),
      Img(120, 100, 10, 10), Img(400, 50, 10, 10) }

\* the lists that hold each scattered fragment at most once, in any order
SpreadLists ==
    { s \in UNION { [1..m -> SpreadImgs] : m \in 0..Cardinality(SpreadImgs) } :
        \A a, b \in 1..Len(s) : a # b => s[a] # s[b] }

ImgLists == UNION { [1..m -> BuildImgs] : m \in 0..MaxImg } \cup SpreadLists

NoRegions == CopyRegions(<<>>)

LocalS ==
    [pp_img |-> pp_img, region |-> region, i_used |-> i_used, b_ok |-> b_ok,
     failed |-> FALSE]

\* RegionDraw is not running
DrawOff ==
    /\ dpc = "off"
    /\ d_region = [i_x |-> 0, i_y |-> 0, i_width |-> 0, i_height |-> 0]
    /\ pixels = <<>>
    /\ d_img = <<>>
    /\ d_len = 0
    /\ d_written = {}

\* no decoder exists
SysOff ==
    /\ dec_pc = "off"
    /\ spu_pc = "off"
    /\ mutex = "none"
    /\ i_refcount = 0
    /\ i_last_pts = 0
    /\ i_max_stop = 0
    /\ p_block = <<>>
    /\ p_spu = 0
    /\ spus = <<>>
    /\ spu_cur = 0
    /\ spu_path = "none"
    /\ n_blocks = 0
    /\ n_flush = 0
    /\ n_chunks = 0
    /\ n_freed = 0
    /\ b_stale = FALSE
    /\ dec_ret = "none"

\* SubpictureUpdate is not running
UpdateOff ==
    /\ upc = "off"
    /\ lock = FALSE
    /\ regions = <<>>
    /\ p_img = <<>>
    /\ i_changed = FALSE
    /\ b_fmt_src = FALSE
    /\ b_fmt_dst = FALSE
    /\ u_region = NoRegions
    /\ i_region = 0
    /\ u_i = 0
    /\ last_has_img = "none"
    /\ u_ret = "none"
    /\ alloc_failed = FALSE

InitBuild ==
    /\ bpc = "entry"
    /\ imgs \in ImgLists
    /\ i_max_region \in 1..MaxK
    /\ \E c \in Canvases : i_width = c[1] /\ i_height = c[2]
    /\ pp_img = <<>>
    /\ region = <<>>
    /\ i_used = 0
    /\ n = 0
    /\ b_ok = FALSE
    /\ p_region = NoRegions
    /\ ret = -1
    /\ UpdateOff
    /\ DrawOff
    /\ SysOff

\* the two counting loops and the calloc between them
BrCount ==
    /\ bpc = "entry"
    /\ \E calloc_ok \in BOOLEAN :
         IF Len(CountImgs(imgs)) <= 0 \/ ~calloc_ok
         THEN /\ bpc' = "ret"
              /\ ret' = 0
              /\ UNCHANGED pp_img
         ELSE /\ bpc' = "seed"
              /\ pp_img' = StartState(imgs).pp_img
              /\ UNCHANGED ret
    /\ UNCHANGED <<imgs, i_max_region, i_width, i_height, region, i_used, n,
                   b_ok, p_region>>
    /\ UNCHANGED <<uvars, dvars, svars>>

\* the head of the outer loop: a new region from the first unassigned fragment
BrSeed ==
    /\ bpc = "seed"
    /\ LET A == SeedRegion(LocalS, imgs, i_max_region)
       IN IF A.failed
          THEN /\ bpc' = "abort"
               /\ UNCHANGED <<pp_img, region, i_used, n, b_ok>>
          ELSE /\ bpc' = "scan"
               /\ pp_img' = A.pp_img
               /\ region' = A.region
               /\ i_used' = A.i_used
               /\ n' = 1
               /\ b_ok' = FALSE
    /\ UNCHANGED <<imgs, i_max_region, i_width, i_height, p_region, ret>>
    /\ UNCHANGED <<uvars, dvars, svars>>

\* one iteration of the scan loop
BrScanImg ==
    /\ bpc = "scan"
    /\ n <= Len(pp_img)
    /\ LET T == ScanImg(LocalS, n, imgs, i_width, i_height)
       IN /\ pp_img' = T.pp_img
          /\ region' = T.region
          /\ i_used' = T.i_used
          /\ b_ok' = T.b_ok
    /\ n' = n + 1
    /\ UNCHANGED <<bpc, imgs, i_max_region, i_width, i_height, p_region, ret>>
    /\ UNCHANGED <<uvars, dvars, svars>>

\* the end of a scan: "while( b_ok )"
BrScanEnd ==
    /\ bpc = "scan"
    /\ n > Len(pp_img)
    /\ IF b_ok
       THEN /\ n' = 1
            /\ b_ok' = FALSE
            /\ UNCHANGED bpc
       ELSE /\ bpc' = "merge"
            /\ UNCHANGED <<n, b_ok>>
    /\ UNCHANGED <<imgs, i_max_region, i_width, i_height, pp_img, region,
                   i_used, p_region, ret>>
    /\ UNCHANGED <<uvars, dvars, svars>>

\* the collapse, then the test of the outer loop
BrMerge ==
    /\ bpc = "merge"
    /\ region' = MergeRegions(region, i_max_region)
    /\ bpc' = IF i_used < Len(pp_img) THEN "seed" ELSE "copy"
    /\ UNCHANGED <<imgs, i_max_region, i_width, i_height, pp_img, i_used, n,
                   b_ok, p_region, ret>>
    /\ UNCHANGED <<uvars, dvars, svars>>

\* the copy to the caller's array, free and return
BrCopy ==
    /\ bpc = "copy"
    /\ p_region' = CopyRegions(region)
    /\ ret' = Len(region)
    /\ bpc' = "ret"
    /\ UNCHANGED <<imgs, i_max_region, i_width, i_height, pp_img, region,
                   i_used, n, b_ok>>
    /\ UNCHANGED <<uvars, dvars, svars>>

NextBuild == BrCount \/ BrSeed \/ BrScanImg \/ BrScanEnd \/ BrMerge \/ BrCopy

SpecBuild == InitBuild /\ [][NextBuild]_vars

\* longest list of BuildImgs in the runs that check termination
MaxFairImg == 2

\* the calls whose termination is checked: the short lists and the lists of
\* scattered fragments
InitBuildFair ==
    /\ InitBuild
    /\ (Len(imgs) <= MaxFairImg \/ imgs \in SpreadLists)

\* BuildRegions runs in the calling thread, which keeps being scheduled: a
\* step that can be taken is taken
SpecBuildFair == InitBuildFair /\ [][NextBuild]_vars /\ WF_vars(NextBuild)


-----------------------------------------------------------------------------
(* Claims about BuildRegions, checked under SpecBuild                      *)

\* whether rectangle a holds rectangle b entirely
Contains(a, b) == a.x0 <= b.x0 /\ a.y0 <= b.y0 /\ b.x1 <= a.x1 /\ b.y1 <= a.y1

\* the bounding box of a fragment, from its four fields
BoxOf(f) == [x0 |-> f.dst_x, y0 |-> f.dst_y, x1 |-> f.dst_x + f.w, y1 |-> f.dst_y + f.h]

PositiveArea(f) == f.w > 0 /\ f.h > 0

\* the scratch array was allocated (pp_img is not NULL)
ScratchAllocated == pp_img # <<>>

\* C1: for every fragment list and every i_max_region = k >= 1, BuildRegions
\* returns a count <= k and writes exactly the entries 0..count-1 of the
\* caller's array, all of them inside its k entries.
C1_CountWithinMax ==
    bpc = "ret" =>
        /\ 0 <= ret /\ ret <= i_max_region
        /\ DOMAIN p_region = 0..(ret - 1)
        /\ DOMAIN p_region \subseteq 0..(i_max_region - 1)

\* two fragments far apart, one region allowed: the collapse has run and one
\* rectangle around both was written to entry 0
C1_Witness ==
    /\ bpc = "ret"
    /\ i_max_region = 1
    /\ imgs = <<Img(0, 0, 10, 10), Img(200, 200, 10, 10)>>
    /\ ret = 1
    /\ p_region[0] = r_create(0, 0, 210, 210)

\* C2: when BuildRegions has run to its end, every fragment of positive
\* width and height lies entirely inside at least one returned rectangle.
C2_Coverage ==
    (bpc = "ret" /\ ScratchAllocated) =>
        \A i \in 1..Len(imgs) :
            PositiveArea(imgs[i]) =>
                \E k \in DOMAIN p_region : Contains(p_region[k], BoxOf(imgs[i]))

\* three fragments of positive area ended in one returned rectangle
C2_Witness ==
    /\ bpc = "ret"
    /\ ret = 1
    /\ Len(imgs) = 3
    /\ \A i \in 1..3 : PositiveArea(imgs[i])
    /\ imgs[1] # imgs[2] /\ imgs[2] # imgs[3] /\ imgs[1] # imgs[3]

\* C6: fragments with w <= 0 or h <= 0 are excluded: the call returns what
\* BuildRegions returns for the list without them, and 0 when none is left.
C6_ZeroAreaExcluded ==
    bpc = "ret" =>
        LET kept == SelectSeq(imgs, PositiveArea)
            R == BuildRegions(i_max_region, kept, i_width, i_height,
                              ScratchAllocated)
        IN /\ ret = R.ret
           /\ p_region = R.p_region
           /\ (kept = <<>> => ret = 0 /\ p_region = NoRegions)

\* a list with a fragment of no area between two of positive area
C6_Witness ==
    /\ bpc = "ret"
    /\ ret >= 1
    /\ Len(imgs) = 3
    /\ PositiveArea(imgs[1]) /\ ~PositiveArea(imgs[2]) /\ PositiveArea(imgs[3])

\* a list of fragments of no area only: 0 rectangles
C6_WitnessEmpty ==
    /\ bpc = "ret"
    /\ Len(imgs) >= 1
    /\ \A i \in 1..Len(imgs) : ~PositiveArea(imgs[i])
    /\ ret = 0

\* the step of the scan loop that examines an unassigned fragment
ScansUnassigned == bpc = "scan" /\ n <= Len(pp_img) /\ pp_img[n] # 0

\* the horizontal and vertical gap between two rectangles (negative when
\* their projections overlap)
GapX(a, b) == Max(b.x0 - a.x1, a.x0 - b.x1)
GapY(a, b) == Max(b.y0 - a.y1, a.y0 - b.y1)

\* the tolerances as section 4.1 states them
StatedDx == Max((i_width + 49) \div 50, 32)
StatedDy == Max((i_height + 99) \div 100, 32)

\* C7: the tolerance of the fragment-against-region test is
\* dx = max(ceil(canvasWidth/50), 32) on the x axis and
\* dy = max(ceil(canvasHeight/100), 32) on the y axis: an unassigned
\* fragment is absorbed exactly when some region is nearer than dx
\* horizontally and nearer than dy vertically.
C7_StatedTolerance ==
    [][ScansUnassigned =>
          ((pp_img'[n] = 0) <=>
             \E k \in 1..Len(region) :
                /\ GapX(region[k], BoxOf(imgs[pp_img[n]])) < StatedDx
                /\ GapY(region[k], BoxOf(imgs[pp_img[n]])) < StatedDy)]_vars

\* both rectangles expanded outward by (dx, dy) overlap strictly
ExpandedBothOverlap(a, b, dx, dy) ==
    /\ Max(a.x0 - dx, b.x0 - dx) < Min(a.x1 + dx, b.x1 + dx)
    /\ Max(a.y0 - dy, b.y0 - dy) < Min(a.y1 + dy, b.y1 + dy)

\* C8 as stated: an unassigned fragment is absorbed exactly when its box and
\* a region's box, each expanded by the tolerance, overlap strictly (a gap
\* below twice the tolerance).
C8_BothExpanded ==
    [][ScansUnassigned =>
          ((pp_img'[n] = 0) <=>
             \E k \in 1..Len(region) :
                ExpandedBothOverlap(region[k], BoxOf(imgs[pp_img[n]]),
                                    i_maxw(i_height), i_maxh(i_width)))]_vars

\* C8 amended: an unassigned fragment is absorbed exactly when the box of
\* some region, alone expanded by the tolerance (i_dx, i_dy) that
\* BuildRegions passes, overlaps the fragment's own box strictly: the gap is
\* below i_dx horizontally and below i_dy vertically, and a gap of exactly
\* the tolerance does not merge.
C8_RegionExpanded ==
    [][ScansUnassigned =>
          ((pp_img'[n] = 0) <=>
             \E k \in 1..Len(region) :
                /\ GapX(region[k], BoxOf(imgs[pp_img[n]])) < i_maxw(i_height)
                /\ GapY(region[k], BoxOf(imgs[pp_img[n]])) < i_maxh(i_width))]_vars

\* in one scan the fragment at a gap of 32 was left and the one at a gap of
\* 31 absorbed
C8_Witness ==
    /\ bpc = "scan"
    /\ n = 4
    /\ i_width = 1000 /\ i_height = 1000
    /\ imgs = <<Img(0, 0, 10, 10), Img(42, 0, 10, 10), Img(41, 0, 10, 10)>>
    /\ pp_img = <<0, 2, 0>>
    /\ region = <<r_create(0, 0, 51, 10)>>


\* the least and the greatest member of a non-empty set of integers
SetMin(S) == CHOOSE x \in S : \A y \in S : x <= y
SetMax(S) == CHOOSE x \in S : \A y \in S : x >= y

\* the positive-area fragments of the list (as indices) lying inside rect
FragmentsInside(rect) ==
    { k \in 1..Len(imgs) : PositiveArea(imgs[k]) /\ Contains(rect, BoxOf(imgs[k])) }

\* the bounding box of a non-empty set of fragments
BoundingBox(T) ==
    [x0 |-> SetMin({ imgs[k].dst_x : k \in T }),
     y0 |-> SetMin({ imgs[k].dst_y : k \in T }),
     x1 |-> SetMax({ imgs[k].dst_x + imgs[k].w : k \in T }),
     y1 |-> SetMax({ imgs[k].dst_y + imgs[k].h : k \in T })]

\* rect has positive width and height and is the bounding box of a non-empty
\* set of positive-area fragments of the list
TightBox(rect) ==
    /\ rect.x1 > rect.x0
    /\ rect.y1 > rect.y0
    /\ FragmentsInside(rect) # {}
    /\ BoundingBox(FragmentsInside(rect)) = rect

\* C14: every rectangle BuildRegions returns (and every entry of its local
\* array on the way) has x1 > x0 and y1 > y0 and is exactly the bounding box
\* of a non-empty set of positive-area fragments of the list: it holds at
\* least one of them and has no slack on any side, so that the widths and
\* heights x1 - x0, y1 - y0 a region buffer is requested with are positive.
C14_TightRegions ==
    /\ \A k \in 1..Len(region) : TightBox(region[k])
    /\ \A k \in DOMAIN p_region :
          /\ TightBox(p_region[k])
          /\ p_region[k].x1 - p_region[k].x0 > 0
          /\ p_region[k].y1 - p_region[k].y0 > 0

\* a collapse of two far fragments and a region grown by absorption were
\* returned: neither rectangle is the box of a single fragment
C14_Witness ==
    /\ bpc = "ret"
    /\ ret >= 1
    /\ \E k \in DOMAIN p_region :
          /\ Cardinality(FragmentsInside(p_region[k])) >= 2
          /\ \A j \in 1..Len(imgs) : BoxOf(imgs[j]) # p_region[k]
    /\ \E j \in 1..Len(imgs) : ~PositiveArea(imgs[j])

\* the positive-area fragments of the list, as indices in list order
PositiveImgs == CountImgs(imgs)

\* no two positive-area fragments of the list have boxes that overlap when
\* each is expanded by the stated tolerance
AllApart ==
    \A a, b \in 1..Len(PositiveImgs) :
        a # b => ~ExpandedBothOverlap(BoxOf(imgs[PositiveImgs[a]]),
                                      BoxOf(imgs[PositiveImgs[b]]),
                                      StatedDx, StatedDy)

\* C15: when no two positive-area fragments have overlapping expanded boxes
\* and there are at most i_max_region of them, a call that allocated its
\* scratch array returns one rectangle per fragment, each the fragment's
\* own box, in list order; no two fragments share a rectangle.
C15_OnePerFragment ==
    (bpc = "ret" /\ ScratchAllocated /\ AllApart
       /\ Len(PositiveImgs) <= i_max_region) =>
        /\ ret = Len(PositiveImgs)
        /\ \A k \in 1..Len(PositiveImgs) :
              p_region[k - 1] = BoxOf(imgs[PositiveImgs[k]])

\* C16: with i_max_region = 1 and at least one positive-area fragment, a
\* call that allocated its scratch array returns exactly one rectangle, the
\* bounding box of all positive-area fragments, however far apart they lie.
C16_SingleRegion ==
    (bpc = "ret" /\ ScratchAllocated /\ i_max_region = 1
       /\ Len(PositiveImgs) >= 1) =>
        /\ ret = 1
        /\ DOMAIN p_region = { 0 }
        /\ p_region[0] =
             BoundingBox({ PositiveImgs[k] : k \in 1..Len(PositiveImgs) })

\* the five scattered fragments, one region allowed: one rectangle around
\* all of them was returned
C16_Witness ==
    /\ bpc = "ret"
    /\ i_max_region = 1
    /\ Len(imgs) = 5
    /\ { imgs[k] : k \in 1..5 } = SpreadImgs
    /\ imgs[1] = Img(400, 50, 10, 10)
    /\ ret = 1
    /\ p_region[0] = r_create(0, 0, 410, 210)

\* the regions (1-based slots) the fragment scanned now is mergeable with,
\* by the test BuildRegions makes
MergeableWith(box) ==
    { k \in 1..Len(region) :
        r_overlap(region[k], box, i_maxw(i_height), i_maxh(i_width)) }

\* of a non-empty set of slots, the one of smallest own surface, the lowest
\* slot among equals
SmallestRegion(M) ==
    CHOOSE k \in M :
        \A j \in M : \/ r_surface(region[k]) < r_surface(region[j])
                     \/ (r_surface(region[k]) = r_surface(region[j]) /\ k <= j)

\* C17: in the growth scan an unassigned fragment that is mergeable with one
\* or several regions is absorbed by the one whose own rectangle has the
\* smallest surface, the lowest index among equals: that rectangle becomes
\* its union with the fragment's box, the others stay, and the fragment is
\* marked assigned.
C17_SmallestRegionAbsorbs ==
    [][(ScansUnassigned /\ MergeableWith(BoxOf(imgs[pp_img[n]])) # {}) =>
         LET box == BoxOf(imgs[pp_img[n]])
             best == SmallestRegion(MergeableWith(box))
         IN /\ pp_img'[n] = 0
            /\ region' = [region EXCEPT
                            ![best] = [x0 |-> Min(@.x0, box.x0),
                                       y0 |-> Min(@.y0, box.y0),
                                       x1 |-> Max(@.x1, box.x1),
                                       y1 |-> Max(@.y1, box.y1)]]]_vars

\* the scratch entries still unassigned
Unassigned == { m \in 1..Len(pp_img) : pp_img[m] # 0 }

\* C18: whenever BuildRegions is about to seed a region other than the
\* first, no unassigned fragment is mergeable with any existing region,
\* the seed that follows a collapse included.
C18_SeedOnlyWhenNoneMergeable ==
    (bpc = "seed" /\ Len(region) >= 1) =>
        \A m \in Unassigned : MergeableWith(BoxOf(imgs[pp_img[m]])) = {}

\* area of a rectangle and of the union box of two, from the coordinates
Area(a) == (a.x1 - a.x0) * (a.y1 - a.y0)
UnionBox(a, b) ==
    [x0 |-> Min(a.x0, b.x0), y0 |-> Min(a.y0, b.y0),
     x1 |-> Max(a.x1, b.x1), y1 |-> Max(a.y1, b.y1)]

\* area(union) - area(i) - area(j) for the pair p = <<i, j>> of slots
Increase(p) ==
    Area(UnionBox(region[p[1]], region[p[2]]))
        - Area(region[p[1]]) - Area(region[p[2]])

\* the pairs i < j of slots, and the lexicographic order on them
SlotPairs == { p \in (1..Len(region)) \X (1..Len(region)) : p[1] < p[2] }
LexLeq(p, q) == p[1] < q[1] \/ (p[1] = q[1] /\ p[2] <= q[2])

\* the pair of least increase, the lexicographically lowest among equals
CheapestPair ==
    CHOOSE p \in SlotPairs :
        \A q \in SlotPairs :
            Increase(p) < Increase(q) \/ (Increase(p) = Increase(q) /\ LexLeq(p, q))

\* the step of the collapse test
CollapseStep == bpc = "merge" /\ bpc' # "merge"

C20_CountBounded ==
    /\ Len(region) <= i_max_region + 1
    /\ bpc # "abort"
    /\ (bpc \in { "seed", "copy", "ret" }) => Len(region) <= i_max_region

\* two regions allowed, three exist after a growth phase, and fragments
\* remain to be seeded after the collapse
C20_Witness ==
    /\ bpc = "merge"
    /\ i_max_region = 2
    /\ Len(region) = 3
    /\ i_used < Len(pp_img)

\* the steps of the two loops
SeedStep == bpc = "seed" /\ bpc' # "seed"
ScanRepeats == bpc = "scan" /\ n > Len(pp_img) /\ bpc' = "scan"
AssignedCount == Cardinality({ m \in 1..Len(pp_img) : pp_img[m] = 0 })

\* C23: BuildRegions terminates: every call returns; each outer iteration
\* (seed) assigns one fragment that was unassigned; the growth scan is run
\* again only when the scan just ended assigned a fragment; and a call that
\* allocated its scratch array returns with every positive-area fragment
\* assigned.
C23_Terminates ==
    /\ <>(bpc = "ret")
    /\ [][SeedStep => Cardinality(Unassigned') = Cardinality(Unassigned) - 1]_vars
    /\ [][ScanRepeats => b_ok]_vars
    /\ [][(bpc = "scan" /\ b_ok' /\ ~b_ok) =>
             Cardinality(Unassigned') = Cardinality(Unassigned) - 1]_vars
    /\ []((bpc = "ret" /\ ScratchAllocated) =>
             (Unassigned = {} /\ i_used = Len(pp_img)))

\* the five scattered fragments, two regions allowed: the call went through
\* seeds, repeated scans and collapses and returned
C23_Witness ==
    /\ bpc = "ret"
    /\ Len(imgs) = 5
    /\ i_max_region = 2
    /\ ret = 2
    /\ i_used = 5
    /\ Unassigned = {}

-----------------------------------------------------------------------------
(* RegionDraw: the tests at the head of its loop over the fragments        *)

\* The 32-bit p_img->color is kept as its two 16-bit halves, [hi, lo]: the
\* model checker's integers are signed 32-bit and cannot hold r >= 128 in
\* bits 31-24.  hi is color >> 16, lo is color & 0xffff.
Color(hi, lo) == [hi |-> hi, lo |-> lo]

\* the alpha read without the inversion
ImgAlpha_NotInverted(img) == img.color.lo % 256

\* "(~p_img->color) & 0xff": the alpha of a fragment, inverted in the color
ImgAlpha(img) == 255 - (img.color.lo % 256)

\* the containment test without its right-edge half
OutsideRegion_NoRightEdge(r, img) ==
    LET i_dst_x == img.dst_x - r.i_x
        i_dst_y == img.dst_y - r.i_y
    IN \/ i_dst_x < 0
       \/ i_dst_y < 0
       \/ i_dst_y + img.h > r.i_height

\* the fragment does not lie entirely inside the region's picture
OutsideRegion(r, img) ==
    LET i_dst_x == img.dst_x - r.i_x
        i_dst_y == img.dst_y - r.i_y
    IN \/ i_dst_x < 0
       \/ i_dst_x + img.w > r.i_width
       \/ i_dst_y < 0
       \/ i_dst_y + img.h > r.i_height

\* the two "continue" of the loop
RegionDrawSkips(r, img) == OutsideRegion(r, img) \/ ImgAlpha(img) = 0

\* the fragments of the list (by index) that RegionDraw blends into r
Blended(r, p_img_list) ==
    SelectSeq([j \in 1..Len(p_img_list) |-> j],
              LAMBDA j : ~RegionDrawSkips(r, p_img_list[j]))

-----------------------------------------------------------------------------
(* SpecUpdate: a sequence of SubpictureUpdate calls on one subpicture.     *)
(* A region of the subpicture is [i_x, i_y, i_width, i_height, blended]:   *)
(* its place, the size of its picture, and the fragments RegionDraw        *)
(* blended into the picture, in order (the pixels are those of SpecDraw).  *)

\* "const int i_max_region = 4;"
UpdMaxRegion == 4

\* longest fragment list the renderer returns in SpecUpdate
MaxFrame == 6

\* a fragment with its packed color
CImg(x, y, w, h, color) ==
    [dst_x |-> x, dst_y |-> y, w |-> w, h |-> h, color |-> color]

\* the color 0xC8643200: r = 200, g = 100, b = 50, inverted alpha 0 (opaque)
Opaque == Color(200 * 256 + 100, 50 * 256 + 0)

\* The fragments of the track, in the order the renderer lists them: one of
\* no area, a dot, a horizontal and a vertical bar around the dot but more
\* than the tolerance away from it, and three far blocks.
Track ==
    << CImg(5, 5, 0, 10, Opaque), CImg(35, 35, 1, 1, Opaque),
       CImg(0, 0, 80, 1, Opaque), CImg(0, 0, 1, 80, Opaque),
       CImg(200, 200, 10, 10, Opaque), CImg(400, 0, 10, 10, Opaque),
       CImg(0, 400, 10, 10, Opaque) >>

\* what ass_render_frame may return: NULL or a run of the track's fragments
Frames ==
    { <<>> } \cup
    { SubSeq(Track, ab[1], ab[2]) :
        ab \in { xy \in (1..Len(Track)) \X (1..Len(Track)) :
                   xy[1] <= xy[2] /\ xy[2] - xy[1] + 1 <= MaxFrame } }

\* visible sizes of the source video
SrcSizes == { <<640, 480>>, <<1280, 720>> }

\* p_fmt_dst->i_width, i_height
DstWidth == 1000
DstHeight == 1000

\* BuildRegions is not running
BuildOff ==
    /\ bpc = "off"
    /\ imgs = <<>>
    /\ i_max_region = 0
    /\ i_width = 0
    /\ i_height = 0
    /\ pp_img = <<>>
    /\ region = <<>>
    /\ i_used = 0
    /\ n = 0
    /\ b_ok = FALSE
    /\ p_region = NoRegions
    /\ ret = -1

InitUpdate ==
    /\ upc = "idle"
    /\ lock = FALSE
    /\ regions = <<>>
    /\ p_img = <<>>
    /\ i_changed = FALSE
    /\ b_fmt_src = FALSE
    /\ b_fmt_dst = FALSE
    /\ u_region = NoRegions
    /\ i_region = 0
    /\ u_i = 0
    /\ last_has_img = "none"
    /\ u_ret = "none"
    /\ alloc_failed = FALSE
    /\ BuildOff
    /\ DrawOff
    /\ SysOff

\* the skip test without the comparison against the region list
SkipPass_NoRegionTest(changed, fmt_src, fmt_dst, img_list, regs) ==
    /\ ~changed /\ ~fmt_src /\ ~fmt_dst
    /\ img_list # <<>>

\* the test that skips the pass
SkipPass(changed, fmt_src, fmt_dst, img_list, regs) ==
    /\ ~changed /\ ~fmt_src /\ ~fmt_dst
    /\ (img_list # <<>>) = (regs # <<>>)

\* subpicture_region_New and the fields set after it, then RegionDraw
NewRegion(rect, p_img_list) ==
    LET r == [i_x |-> rect.x0, i_y |-> rect.y0,
              i_width |-> rect.x1 - rect.x0, i_height |-> rect.y1 - rect.y0]
    IN [i_x |-> r.i_x, i_y |-> r.i_y, i_width |-> r.i_width,
        i_height |-> r.i_height, blended |-> Blended(r, p_img_list)]

\* a push at the head of the list
RegionsPush_Front(regs, r) == <<r>> \o regs

\* vlc_spu_regions_push: at the tail of the list
RegionsPush(regs, r) == Append(regs, r)

\* unlock and return; the locals go out of scope
UpdReturn(path) ==
    /\ upc' = "idle"
    /\ lock' = FALSE
    /\ u_ret' = path
    /\ last_has_img' = IF p_img # <<>> THEN "yes" ELSE "no"
    /\ p_img' = <<>>
    /\ i_changed' = FALSE
    /\ b_fmt_src' = FALSE
    /\ b_fmt_dst' = FALSE
    /\ u_region' = NoRegions
    /\ i_region' = 0
    /\ u_i' = 0

\* entry to ass_render_frame: the geometry tests, the lock, the renderer's
\* frame size (renderer state, not modelled) and the rendering
UpdBegin ==
    /\ upc = "idle"
    /\ ~lock
    /\ lock' = TRUE
    /\ \E prev_src \in SrcSizes, src \in SrcSizes :
          b_fmt_src' = (src[1] # prev_src[1] \/ src[2] # prev_src[2])
    /\ b_fmt_dst' \in BOOLEAN
    /\ p_img' \in Frames
    /\ i_changed' \in BOOLEAN
    /\ alloc_failed' = FALSE
    /\ upc' = "rendered"
    /\ UNCHANGED <<regions, u_region, i_region, u_i, last_has_img, u_ret>>
    /\ UNCHANGED <<bvars, dvars, svars>>

\* the skip test, else vlc_spu_regions_Clear
UpdSkipCheck ==
    /\ upc = "rendered"
    /\ IF SkipPass(i_changed, b_fmt_src, b_fmt_dst, p_img, regions)
       THEN /\ UpdReturn("skip")
            /\ UNCHANGED regions
       ELSE /\ regions' = <<>>
            /\ upc' = "build"
            /\ UNCHANGED <<lock, p_img, i_changed, b_fmt_src, b_fmt_dst, u_region,
                           i_region, u_i, last_has_img, u_ret>>
    /\ UNCHANGED alloc_failed
    /\ UNCHANGED <<bvars, dvars, svars>>

\* BuildRegions and the test of its result
UpdBuild ==
    /\ upc = "build"
    /\ \E calloc_ok \in BOOLEAN :
         LET R == BuildRegions(UpdMaxRegion, p_img, DstWidth, DstHeight, calloc_ok)
         IN /\ alloc_failed' = (Len(CountImgs(p_img)) > 0 /\ ~calloc_ok)
            /\ IF R.ret <= 0
               THEN UpdReturn("noregion")
               ELSE /\ u_region' = R.p_region
                    /\ i_region' = R.ret
                    /\ u_i' = 0
                    /\ upc' = "loop"
                    /\ UNCHANGED <<lock, p_img, i_changed, b_fmt_src, b_fmt_dst,
                                   last_has_img, u_ret>>
    /\ UNCHANGED regions
    /\ UNCHANGED <<bvars, dvars, svars>>

\* one iteration of the region loop; a failed subpicture_region_New breaks
UpdRegion ==
    /\ upc = "loop"
    /\ u_i < i_region
    /\ \E new_ok \in BOOLEAN :
         IF ~new_ok
         THEN /\ alloc_failed' = TRUE
              /\ UpdReturn("break")
              /\ UNCHANGED regions
         ELSE /\ regions' = RegionsPush(regions, NewRegion(u_region[u_i], p_img))
              /\ u_i' = u_i + 1
              /\ UNCHANGED <<upc, lock, p_img, i_changed, b_fmt_src, b_fmt_dst,
                             u_region, i_region, last_has_img, u_ret, alloc_failed>>
    /\ UNCHANGED <<bvars, dvars, svars>>

\* the loop is over: unlock and return
UpdEnd ==
    /\ upc = "loop"
    /\ ~(u_i < i_region)
    /\ UpdReturn("done")
    /\ UNCHANGED <<regions, alloc_failed>>
    /\ UNCHANGED <<bvars, dvars, svars>>

NextUpdate == UpdBegin \/ UpdSkipCheck \/ UpdBuild \/ UpdRegion \/ UpdEnd

SpecUpdate == InitUpdate /\ [][NextUpdate]_vars


-----------------------------------------------------------------------------
(* Claims about SubpictureUpdate, checked under SpecUpdate                 *)

\* the regions of the list whose picture fragment j of p_img was blended into
BlendedInto(j) ==
    { k \in 1..Len(regions) :
        \E q \in 1..Len(regions[k].blended) : regions[k].blended[q] = j }

\* the region loop has run over every returned rectangle
PassComplete == upc = "loop" /\ u_i = i_region

\* C3: after a full pass every fragment of positive width and height has
\* been blended into the picture of exactly one region.
C3_BlendedOnce ==
    PassComplete =>
        \A j \in 1..Len(p_img) :
            PositiveArea(p_img[j]) => Cardinality(BlendedInto(j)) = 1

\* the renderer reports no change and the geometry is the same
NothingChanged == upc = "rendered" /\ ~i_changed /\ ~b_fmt_src /\ ~b_fmt_dst

\* the pass was skipped: return straight from the test, list untouched
Skipped == upc' = "idle" /\ u_ret' = "skip" /\ regions' = regions /\ ~lock'

\* C4 as stated: with no change reported, the same geometry, and the
\* renderer's list NULL or not NULL as on the previous call, the pass is
\* skipped.
C4_SkipOnSamePresence ==
    [][(/\ NothingChanged
        /\ last_has_img # "none"
        /\ (p_img # <<>>) = (last_has_img = "yes")) => Skipped]_vars

\* C4 amended: with no change reported, the same geometry, and the
\* renderer's list not NULL exactly when the subpicture's region list is not
\* empty, the pass is skipped: the region list is left as it is and neither
\* BuildRegions nor RegionDraw runs.
C4_SkipOnRegionPresence ==
    [][(/\ NothingChanged
        /\ (p_img # <<>>) = (regions # <<>>)) => Skipped]_vars

\* a call was skipped and left two or more regions in place
C4_Witness ==
    /\ upc = "idle"
    /\ u_ret = "skip"
    /\ last_has_img = "yes"
    /\ Len(regions) >= 2

\* a call with a NULL list and no regions was skipped
C4_WitnessEmpty ==
    /\ upc = "idle"
    /\ u_ret = "skip"
    /\ last_has_img = "no"
    /\ regions = <<>>

\* C5 as stated: after a pass in which an allocation failed, the region
\* list is empty and the lock released.
C5_ZeroRegionsOnFailure ==
    (upc = "idle" /\ alloc_failed) => (regions = <<>> /\ ~lock)

\* C5 amended: if the allocation of the scratch array fails the pass
\* produces zero regions; if the allocation of the picture of region i
\* (counting from 0) fails, the region list holds exactly the i regions
\* built before it, in the order of the rectangles, and is empty only for
\* i = 0; the lock is released in each case.
C5_RegionsBeforeFailure ==
    [][(upc' = "idle" /\ alloc_failed') =>
          /\ ~lock'
          /\ (upc = "build" => regions' = <<>>)
          /\ (upc = "loop" =>
                /\ Len(regions') = u_i
                /\ \A k \in 1..u_i :
                      /\ regions'[k].i_x = u_region[k - 1].x0
                      /\ regions'[k].i_y = u_region[k - 1].y0
                      /\ regions'[k].i_width = u_region[k - 1].x1 - u_region[k - 1].x0
                      /\ regions'[k].i_height = u_region[k - 1].y1 - u_region[k - 1].y0)]_vars

\* the picture of the fourth region could not be allocated: three are left
C5_Witness ==
    /\ upc = "idle"
    /\ alloc_failed
    /\ u_ret = "break"
    /\ Len(regions) = 3
    /\ ~lock

\* the scratch array could not be allocated: no region
C5_WitnessScratch ==
    /\ upc = "idle"
    /\ alloc_failed
    /\ u_ret = "noregion"
    /\ regions = <<>>
    /\ ~lock


-----------------------------------------------------------------------------
(* RegionDraw: the blending                                                *)

\* a store into a uint8_t
U8(v) == v % 256

\* "(color >> 24) & 0xff", "(color >> 16) & 0xff", "(color >> 8) & 0xff"
ImgRed(img) == (img.color.hi \div 256) % 256
ImgGreen(img) == img.color.hi % 256
ImgBlue(img) == (img.color.lo \div 256) % 256

\* BlendPixel where a pixel that already has alpha keeps what it holds
BlendPixel_FirstWins(dst, r, g, b, a, opacity) ==
    IF opacity = 0 \/ dst[4] # 0 THEN dst
    ELSE <<U8(r), U8(g), U8(b), U8((a * opacity) \div 255)>>

\* BlendPixel where the new alpha is the coverage alone
BlendPixel_SourceAlpha(dst, r, g, b, a, opacity) ==
    IF opacity = 0 THEN dst
    ELSE LET i_an == (a * opacity) \div 255
             i_ao == dst[4]
         IN IF i_ao = 0
            THEN <<U8(r), U8(g), U8(b), U8(i_an)>>
            ELSE LET i_ani == 255 - i_an
                     dst3 == U8(i_an)
                     i_aoni == (i_ao * i_ani) \div 255
                 IN IF dst3 # 0
                    THEN << U8((dst[1] * i_aoni + r * i_an) \div dst3),
                            U8((dst[2] * i_aoni + g * i_an) \div dst3),
                            U8((dst[3] * i_aoni + b * i_an) \div dst3),
                            dst3 >>
                    ELSE <<dst[1], dst[2], dst[3], dst3>>

\* BlendPixel with the coverage rounded to nearest instead of truncated
BlendPixel_RoundedCoverage(dst, r, g, b, a, opacity) ==
    IF opacity = 0 THEN dst
    ELSE LET i_an == (a * opacity + 127) \div 255
             i_ao == dst[4]
         IN IF i_ao = 0
            THEN <<U8(r), U8(g), U8(b), U8(i_an)>>
            ELSE LET i_ani == 255 - i_an
                     dst3 == U8(255 - ((255 - i_ao) * i_ani) \div 255)
                     i_aoni == (i_ao * i_ani) \div 255
                 IN IF dst3 # 0
                    THEN << U8((dst[1] * i_aoni + r * i_an) \div dst3),
                            U8((dst[2] * i_aoni + g * i_an) \div dst3),
                            U8((dst[3] * i_aoni + b * i_an) \div dst3),
                            dst3 >>
                    ELSE <<dst[1], dst[2], dst[3], dst3>>

\* BlendPixel with i_aoni rounded up instead of truncated
BlendPixel_AoniRoundedUp(dst, r, g, b, a, opacity) ==
    IF opacity = 0 THEN dst
    ELSE LET i_an == (a * opacity) \div 255
             i_ao == dst[4]
         IN IF i_ao = 0
            THEN <<U8(r), U8(g), U8(b), U8(i_an)>>
            ELSE LET i_ani == 255 - i_an
                     dst3 == U8(255 - ((255 - i_ao) * i_ani) \div 255)
                     i_aoni == (i_ao * i_ani + 254) \div 255
                 IN IF dst3 # 0
                    THEN << U8((dst[1] * i_aoni + r * i_an) \div dst3),
                            U8((dst[2] * i_aoni + g * i_an) \div dst3),
                            U8((dst[3] * i_aoni + b * i_an) \div dst3),
                            dst3 >>
                    ELSE <<dst[1], dst[2], dst[3], dst3>>

\* the body of the loop over x: one sample of opacity blended on dst, for a
\* fragment of color r, g, b and alpha a
BlendPixel(dst, r, g, b, a, opacity) ==
    IF opacity = 0 THEN dst
    ELSE LET i_an == (a * opacity) \div 255
             i_ao == dst[4]
         IN IF i_ao = 0
            THEN <<U8(r), U8(g), U8(b), U8(i_an)>>
            ELSE LET i_ani == 255 - i_an
                     dst3 == U8(255 - ((255 - i_ao) * i_ani) \div 255)
                 IN IF dst3 # 0
                    THEN LET i_aoni == (i_ao * i_ani) \div 255
                         IN << U8((dst[1] * i_aoni + r * i_an) \div dst3),
                               U8((dst[2] * i_aoni + g * i_an) \div dst3),
                               U8((dst[3] * i_aoni + b * i_an) \div dst3),
                               dst3 >>
                    ELSE <<dst[1], dst[2], dst[3], dst3>>

\* "*src++" in row y, column x: the opacity sample of the bitmap
Opacity(img, x, y) == img.bitmap[y * img.stride + x + 1]

\* the loops over y and x for a fragment that is not skipped: every pixel
\* of the fragment is visited once, in row-major order
BlendImg(pix, r, img) ==
    LET i_dst_x == img.dst_x - r.i_x
        i_dst_y == img.dst_y - r.i_y
    IN [p \in DOMAIN pix |->
          LET x == p[1] - i_dst_x
              y == p[2] - i_dst_y
          IN IF x >= 0 /\ x < img.w /\ y >= 0 /\ y < img.h
             THEN BlendPixel(pix[p], ImgRed(img), ImgGreen(img), ImgBlue(img),
                             ImgAlpha(img), Opacity(img, x, y))
             ELSE pix[p]]

\* one iteration of the loop over the fragments
DrawImg(pix, r, img) ==
    IF RegionDrawSkips(r, img) THEN pix ELSE BlendImg(pix, r, img)

\* the pixels (region coordinates) that iteration stores to; a store outside
\* the picture is listed here and changes no pixel of the picture
StoresOf(r, img) ==
    IF RegionDrawSkips(r, img) THEN {}
    ELSE { <<img.dst_x - r.i_x + x, img.dst_y - r.i_y + y>> :
             <<x, y>> \in { xy \in (0..(img.w - 1)) \X (0..(img.h - 1)) :
                              Opacity(img, xy[1], xy[2]) # 0 } }

\* the memset of the picture
ClearedPixels(r) ==
    [p \in (0..(r.i_width - 1)) \X (0..(r.i_height - 1)) |-> <<0, 0, 0, 0>>]

-----------------------------------------------------------------------------
(* SpecDraw: one call of RegionDraw, fragment by fragment.                 *)

\* longest fragment list handed to RegionDraw in SpecDraw
MaxDrawImg == 2

\* the region drawn into: a 2x2 picture placed at (10, 20)
DrawRegion == [i_x |-> 10, i_y |-> 20, i_width |-> 2, i_height |-> 2]

\* opacity patterns: sample (x, y) of a bitmap
FullPattern(x, y) == 255
HalfPattern(x, y) == IF (x + y) % 2 = 0 THEN 255 ELSE 128
HolePattern(x, y) == IF (x + y) % 2 = 0 THEN 0 ELSE 255

PatternAt(pat, x, y) ==
    CASE pat = "full" -> FullPattern(x, y)
      [] pat = "half" -> HalfPattern(x, y)
      [] pat = "hole" -> HolePattern(x, y)

\* a bitmap of h rows of stride bytes; the bytes past column w - 1 of a row
\* are padding the loops must not read
Bitmap(pat, w, h, stride) ==
    [k \in 1..(stride * h) |->
        IF (k - 1) % stride < w
        THEN PatternAt(pat, (k - 1) % stride, (k - 1) \div stride)
        ELSE 77]

\* a fragment with its bitmap; the "half" bitmaps have a padded stride
DImg(x, y, w, h, pat, color) ==
    LET stride == IF pat = "half" THEN w + 1 ELSE w
    IN [dst_x |-> x, dst_y |-> y, w |-> w, h |-> h, stride |-> stride,
        bitmap |-> Bitmap(pat, w, h, stride), color |-> color]

\* colors: opaque 0xC8643200, half transparent 0x00FF0080, transparent
\* 0xFFFFFFFF (inverted alpha 0xFF)
DrawColors == { Color(200 * 256 + 100, 50 * 256 + 0), Color(255, 128),
                Color(65535, 65535) }

\* fragments of 1x1, 2x1 and 1x2 samples, placed from one pixel before the
\* region's origin to its last pixel
DrawImgs ==
    { DImg(DrawRegion.i_x + ox, DrawRegion.i_y + oy, wh[1], wh[2], pat, color) :
        ox \in -1..1, oy \in -1..1, wh \in { <<1, 1>>, <<2, 1>>, <<1, 2>> },
        pat \in { "full", "half", "hole" }, color \in DrawColors }

\* what the fresh picture may hold before the memset
Garbage(r) ==
    { [p \in (0..(r.i_width - 1)) \X (0..(r.i_height - 1)) |-> <<v, v, v, v>>] :
        v \in { 0, 9 } }

InitDraw ==
    /\ dpc = "entry"
    /\ d_region = DrawRegion
    /\ pixels \in Garbage(DrawRegion)
    /\ d_img = <<>>
    /\ d_len = 0
    /\ d_written = {}
    /\ BuildOff
    /\ UpdateOff
    /\ SysOff

\* the locals and the memset
DrClear ==
    /\ dpc = "entry"
    /\ pixels' = ClearedPixels(d_region)
    /\ dpc' = "loop"
    /\ UNCHANGED <<d_region, d_img, d_len, d_written>>
    /\ UNCHANGED <<bvars, uvars, svars>>

\* one iteration of "for( ; p_img != NULL; p_img = p_img->next )"
DrImg ==
    /\ dpc = "loop"
    /\ d_len < MaxDrawImg
    /\ \E img \in DrawImgs :
         /\ d_img' = img
         /\ pixels' = DrawImg(pixels, d_region, img)
         /\ d_written' = StoresOf(d_region, img)
    /\ d_len' = d_len + 1
    /\ UNCHANGED <<dpc, d_region>>
    /\ UNCHANGED <<bvars, uvars, svars>>

\* p_img == NULL: return
DrEnd ==
    /\ dpc = "loop"
    /\ dpc' = "ret"
    /\ UNCHANGED <<d_region, pixels, d_img, d_len, d_written>>
    /\ UNCHANGED <<bvars, uvars, svars>>

NextDraw == DrClear \/ DrImg \/ DrEnd

SpecDraw == InitDraw /\ [][NextDraw]_vars


-----------------------------------------------------------------------------
(* Claims about RegionDraw, checked under SpecDraw                         *)

\* a step of the loop over the fragments
DrawsFragment == dpc = "loop" /\ dpc' = "loop"

\* the pixels of the picture, in region coordinates
InPicture(r, p) ==
    0 <= p[1] /\ p[1] < r.i_width /\ 0 <= p[2] /\ p[2] < r.i_height

\* some sample of the fragment falls outside the picture of the region
PartOutside(r, img) ==
    \E x \in 0..(img.w - 1), y \in 0..(img.h - 1) :
        ~InPicture(r, <<img.dst_x - r.i_x + x, img.dst_y - r.i_y + y>>)

\* some sample of the fragment falls inside the picture of the region
PartInside(r, img) ==
    \E x \in 0..(img.w - 1), y \in 0..(img.h - 1) :
        InPicture(r, <<img.dst_x - r.i_x + x, img.dst_y - r.i_y + y>>)

\* C9: RegionDraw never stores outside the region's picture: a fragment any
\* part of which lies outside is skipped whole (no store, the picture is
\* unchanged), and every store of a drawn fragment goes to a pixel (x, y)
\* with 0 <= x < width and 0 <= y < height.
C9_NoStoreOutside ==
    [][DrawsFragment =>
          /\ \A p \in d_written' : InPicture(d_region, p)
          /\ (PartOutside(d_region, d_img') =>
                d_written' = {} /\ pixels' = pixels)]_vars

\* an opaque fragment lying half inside a picture that already holds
\* something was handled, and nothing was stored
C9_Witness ==
    /\ dpc = "loop"
    /\ d_len = 2
    /\ PartOutside(d_region, d_img) /\ PartInside(d_region, d_img)
    /\ d_img.color.lo % 256 = 0
    /\ \A k \in 1..Len(d_img.bitmap) : d_img.bitmap[k] # 0
    /\ d_written = {}
    /\ pixels # ClearedPixels(d_region)

\* a fragment filling the last column of the picture was drawn
C9_WitnessDrawn ==
    /\ dpc = "loop"
    /\ d_written = { <<1, 0>>, <<1, 1>> }

\* C10: a fragment whose color has the inverted-alpha byte 0xFF leaves the
\* picture as it was, whatever its bitmap and whatever the picture held.
C10_TransparentNoOp ==
    [][(DrawsFragment /\ d_img'.color.lo % 256 = 255) => pixels' = pixels]_vars

\* a transparent fragment with a full bitmap, inside the picture, was
\* handled after another fragment had been blended
C10_Witness ==
    /\ dpc = "loop"
    /\ d_len = 2
    /\ d_img.color.lo % 256 = 255
    /\ ~PartOutside(d_region, d_img)
    /\ \A k \in 1..Len(d_img.bitmap) : d_img.bitmap[k] = 255
    /\ pixels # ClearedPixels(d_region)

\* the pixels <<x, y>> (region coordinates) where the fragment has a sample
\* of full coverage: alpha 255 and opacity 255
FullCoverage(r, img) ==
    { <<img.dst_x - r.i_x + xy[1], img.dst_y - r.i_y + xy[2]>> :
        xy \in { xy \in (0..(img.w - 1)) \X (0..(img.h - 1)) :
                   /\ 255 - (img.color.lo % 256) = 255
                   /\ img.bitmap[xy[2] * img.stride + xy[1] + 1] = 255 } }

\* C13: fragments are blended in list order, each over what the earlier ones
\* left: where a fragment lying inside the picture has a sample of full
\* coverage (an = 255), the pixel holds exactly (r, g, b, 255) of that
\* fragment afterwards, whatever it held before.
C13_LaterOverEarlier ==
    [][(DrawsFragment /\ ~PartOutside(d_region, d_img')) =>
         \A p \in FullCoverage(d_region, d_img') :
            pixels'[p] = << d_img'.color.hi \div 256, d_img'.color.hi % 256,
                            (d_img'.color.lo \div 256) % 256, 255 >>]_vars

\* two overlapping fragments a, d_img of different color were blended in
\* that order, d_img covering a pixel a had written with full coverage; the
\* picture differs from the one the opposite order gives
C13_Witness ==
    /\ dpc = "loop"
    /\ d_len = 2
    /\ ~PartOutside(d_region, d_img)
    /\ \E a \in DrawImgs :
         /\ ~PartOutside(d_region, a)
         /\ a.color # d_img.color
         /\ StoresOf(d_region, a) \cap FullCoverage(d_region, d_img) # {}
         /\ pixels = DrawImg(DrawImg(ClearedPixels(d_region), d_region, a),
                             d_region, d_img)
         /\ pixels # DrawImg(DrawImg(ClearedPixels(d_region), d_region, d_img),
                             d_region, a)


-----------------------------------------------------------------------------
(* SpecBlend: the body of RegionDraw's loop over x at one pixel.  The      *)
(* picture is a single pixel that earlier fragments left in some state,    *)
(* and one fragment of one sample is blended on it.                        *)

\* the region: one pixel at the origin
SampleRegion == [i_x |-> 0, i_y |-> 0, i_width |-> 1, i_height |-> 1]

\* what earlier fragments can have left in the pixel: a white fragment or
\* a fragment of color (10, 100, 200), both of alpha 255, drawn on the
\* cleared pixel with a sample of opacity ao leaves (c, ao); the cleared
\* pixel itself is (0, 0, 0, 0)
SampleDsts ==
    { <<0, 0, 0, 0>> } \cup
    { <<c[1], c[2], c[3], ao>> :
        c \in { <<255, 255, 255>>, <<10, 100, 200>> }, ao \in 0..255 }

\* a fragment of one sample
SampleImg(color, opacity) ==
    [dst_x |-> 0, dst_y |-> 0, w |-> 1, h |-> 1, stride |-> 1,
     bitmap |-> <<opacity>>, color |-> color]

\* the fragments: white 0xFFFFFF00 and 0xC8643200 (alpha 255) with every
\* opacity, 0x00FF0080 (alpha 127), 0x102030FE (alpha 1) and the transparent
\* 0xFFFFFFFF with a few
SampleImgs ==
    { SampleImg(color, opacity) :
        color \in { Color(65535, 255 * 256), Color(200 * 256 + 100, 50 * 256) },
        opacity \in 0..255 } \cup
    { SampleImg(color, opacity) :
        color \in { Color(255, 128), Color(16 * 256 + 32, 48 * 256 + 254),
                    Color(65535, 65535) },
        opacity \in { 0, 1, 128, 255 } }

InitBlend ==
    /\ dpc = "sample"
    /\ d_region = SampleRegion
    /\ pixels \in { [p \in { <<0, 0>> } |-> dst] : dst \in SampleDsts }
    /\ d_img = <<>>
    /\ d_len = 0
    /\ d_written = {}
    /\ BuildOff
    /\ UpdateOff
    /\ SysOff

\* one iteration of the loop over the fragments, for a fragment of one sample
BlSample ==
    /\ dpc = "sample"
    /\ \E img \in SampleImgs :
         /\ d_img' = img
         /\ pixels' = DrawImg(pixels, d_region, img)
         /\ d_written' = StoresOf(d_region, img)
    /\ d_len' = d_len + 1
    /\ dpc' = "blended"
    /\ UNCHANGED d_region
    /\ UNCHANGED <<bvars, uvars, svars>>

NextBlend == BlSample

SpecBlend == InitBlend /\ [][NextBlend]_vars

-----------------------------------------------------------------------------
(* Claims about the blend arithmetic, checked under SpecBlend              *)

\* the step that blends the sample
BlendsSample == dpc = "sample" /\ dpc' = "blended"

\* the pixel of the picture
ThePixel == pixels[<<0, 0>>]

\* bits 31-24, 23-16, 15-8 of the packed color and the inverted low byte
StatedRed(color) == color.hi \div 256
StatedGreen(color) == color.hi % 256
StatedBlue(color) == (color.lo \div 256) % 256
StatedAlpha(color) == 255 - (color.lo % 256)

\* C11: a sample of opacity # 0 of a fragment of alpha # 0, blended on a
\* pixel whose alpha is 0, stores exactly (r, g, b, alpha * opacity / 255)
\* with truncating division; a sample of opacity 0 stores nothing and
\* leaves the pixel as it was.
C11_DirectWrite ==
    [][BlendsSample =>
         LET color == d_img'.color
             opacity == d_img'.bitmap[1]
         IN /\ (opacity # 0 /\ StatedAlpha(color) # 0 /\ ThePixel[4] = 0) =>
                  /\ ThePixel' = << StatedRed(color), StatedGreen(color),
                                    StatedBlue(color),
                                    (StatedAlpha(color) * opacity) \div 255 >>
                  /\ d_written' = { <<0, 0>> }
            /\ (opacity = 0) => (ThePixel' = ThePixel /\ d_written' = {})]_vars

\* 0xC8643200 with opacity 255 was blended on the cleared pixel:
\* (200, 100, 50, 255)
C11_Witness ==
    /\ dpc = "blended"
    /\ d_img = SampleImg(Color(200 * 256 + 100, 50 * 256), 255)
    /\ d_written = { <<0, 0>> }
    /\ ThePixel = <<200, 100, 50, 255>>

\* the same color with opacity 128 was blended on a pixel of alpha 0:
\* alpha 128
C11_WitnessHalf ==
    /\ dpc = "blended"
    /\ d_img = SampleImg(Color(200 * 256 + 100, 50 * 256), 128)
    /\ ThePixel = <<200, 100, 50, 128>>

\* a sample of opacity 0 was handled on a pixel that held something
C11_WitnessZero ==
    /\ dpc = "blended"
    /\ d_img.bitmap[1] = 0
    /\ d_img.color.lo % 256 = 0
    /\ ThePixel = <<10, 100, 200, 77>>
    /\ d_written = {}

\* the stated blend of one channel: c over a destination of alpha ao, src_c
\* with coverage an
StatedNewAlpha(ao, an) == 255 - ((255 - ao) * (255 - an)) \div 255
StatedAoni(ao, an) == (ao * (255 - an)) \div 255
StatedChannel(c, src_c, ao, an) ==
    (c * StatedAoni(ao, an) + src_c * an) \div StatedNewAlpha(ao, an)

\* C12: on a pixel of alpha 1..255 the stated new_a and channel values lie
\* in 0..255 (new_a is not 0), and the bytes stored are these values, not
\* wrapped.
C12_NoWrap ==
    [][(BlendsSample /\ ThePixel[4] >= 1 /\ d_img'.bitmap[1] # 0
          /\ StatedAlpha(d_img'.color) # 0) =>
         LET color == d_img'.color
             ao == ThePixel[4]
             an == (StatedAlpha(color) * d_img'.bitmap[1]) \div 255
             new_a == StatedNewAlpha(ao, an)
             out == << StatedChannel(ThePixel[1], StatedRed(color), ao, an),
                       StatedChannel(ThePixel[2], StatedGreen(color), ao, an),
                       StatedChannel(ThePixel[3], StatedBlue(color), ao, an),
                       new_a >>
         IN /\ an \in 0..255
            /\ new_a \in 1..255
            /\ \A k \in 1..4 : out[k] \in 0..255
            /\ ThePixel' = out]_vars

\* 0xC8643200 at coverage 128 was blended on an opaque pixel of color
\* (10, 100, 200): the result mixes both colors
C12_Witness ==
    /\ dpc = "blended"
    /\ d_img = SampleImg(Color(200 * 256 + 100, 50 * 256), 128)
    /\ ThePixel = <<105, 100, 124, 255>>
    /\ d_written = { <<0, 0>> }

\* C24: the alpha byte of a pixel never decreases when a sample is handled,
\* and a sample blended on a pixel of alpha dst.a # 0 leaves an alpha of at
\* least max(dst.a, an), which is above 0: the branch for a new alpha of 0
\* is not taken and the pixel does not return to transparent.
C24_AlphaMonotone ==
    [][BlendsSample =>
         LET ao == ThePixel[4]
             an == (StatedAlpha(d_img'.color) * d_img'.bitmap[1]) \div 255
         IN /\ ThePixel'[4] >= ao
            /\ (ao # 0 /\ d_img'.bitmap[1] # 0 /\ StatedAlpha(d_img'.color) # 0) =>
                  /\ ThePixel'[4] >= ao
                  /\ ThePixel'[4] >= an
                  /\ ThePixel'[4] > 0
                  /\ d_written' = { <<0, 0>> }]_vars

\* 0xC8643200 at coverage 128 was blended on a pixel (10, 100, 200) of alpha
\* 77: the alpha rose to 167
C24_Witness ==
    /\ dpc = "blended"
    /\ d_img = SampleImg(Color(200 * 256 + 100, 50 * 256), 128)
    /\ ThePixel = <<155, 99, 83, 167>>
    /\ d_written = { <<0, 0>> }


-----------------------------------------------------------------------------
(* SpecSys: the decoder thread (DecodeBlock, Flush, Destroy) and the       *)
(* thread of the subpicture consumer (SubpictureUpdate, SubpictureDestroy) *)
(* on one decoder_sys_t, from the state a successful Create leaves.  Each  *)
(* thread takes one step at a time: a lock, the statements under the       *)
(* lock, an unlock, or statements on data of its own.                      *)

\* number of DecodeBlock and Flush calls in a run
MaxBlock == 2

\* the pts and the lengths of the blocks
BlockPts == { 1, 2 }

BlockLengths == { 0, 3 }

VLC_TICK_INVALID == 0

\* the blocks: NULL (drain), corrupted, empty, and blocks with data
Block(kind, pts, length) == [kind |-> kind, i_pts |-> pts, i_length |-> length]

Blocks ==
    { Block(kind, pts, length) :
        kind \in { "corrupted", "empty", "data" }, pts \in BlockPts,
        length \in BlockLengths } \cup { Block("null", 0, 0) }

\* the state Create leaves when it succeeds
InitSys ==
    /\ dec_pc = "idle"
    /\ spu_pc = "idle"
    /\ mutex = "none"
    /\ i_refcount = 1
    /\ i_last_pts = VLC_TICK_INVALID
    /\ i_max_stop = VLC_TICK_INVALID
    /\ p_block = <<>>
    /\ p_spu = 0
    /\ spus = <<>>
    /\ spu_cur = 0
    /\ spu_path = "none"
    /\ n_blocks = 0
    /\ n_flush = 0
    /\ n_chunks = 0
    /\ n_freed = 0
    /\ b_stale = FALSE
    /\ dec_ret = "none"
    /\ BuildOff
    /\ UpdateOff
    /\ DrawOff

\* a use of decoder_sys_t: stale once it was freed
Touch == b_stale' = (b_stale \/ n_freed > 0)

\* Flush
Flush ==
    /\ dec_pc = "idle"
    /\ n_blocks < MaxBlock
    /\ n_blocks' = n_blocks + 1
    /\ n_flush' = n_flush + 1
    /\ i_max_stop' = VLC_TICK_INVALID
    /\ i_last_pts' = VLC_TICK_INVALID
    /\ dec_ret' = "flush"
    /\ Touch
    /\ UNCHANGED <<dec_pc, spu_pc, mutex, i_refcount, p_block, p_spu, spus,
                   spu_cur, spu_path, n_chunks, n_freed>>
    /\ UNCHANGED <<bvars, uvars, dvars>>

\* the stop time without the maximum with i_max_stop
SpuStop_NoMax(max_stop, block) == block.i_pts + block.i_length

\* "__MAX( p_sys->i_max_stop, p_block->i_pts + p_block->i_length )"
SpuStop(max_stop, block) == Max(max_stop, block.i_pts + block.i_length)

\* DecodeBlock up to the call of DecSysHold (lines 334-389), or up to its
\* return when no chunk is fed.  malloc_ok and spu_ok are the outcomes of
\* malloc and of decoder_NewSubpicture.
DecodeEnter ==
    /\ dec_pc = "idle"
    /\ n_blocks < MaxBlock
    /\ n_blocks' = n_blocks + 1
    /\ Touch
    /\ \E block \in Blocks, malloc_ok \in BOOLEAN, spu_ok \in BOOLEAN :
         CASE block.kind = "null" ->
                /\ dec_ret' = "drain"
                /\ UNCHANGED <<dec_pc, i_last_pts, i_max_stop, p_block, p_spu, spus, n_flush>>
           [] block.kind = "corrupted" ->
                /\ i_max_stop' = VLC_TICK_INVALID
                /\ i_last_pts' = VLC_TICK_INVALID
                /\ n_flush' = n_flush + 1
                /\ dec_ret' = "corrupted"
                /\ UNCHANGED <<dec_pc, p_block, p_spu, spus>>
           [] block.kind = "empty" ->
                /\ dec_ret' = "empty"
                /\ UNCHANGED <<dec_pc, i_last_pts, i_max_stop, p_block, p_spu, spus, n_flush>>
           [] block.kind = "data" ->
                IF block.i_pts # i_last_pts
                THEN IF ~malloc_ok \/ ~spu_ok
                     THEN /\ dec_ret' = "nomem"
                          /\ UNCHANGED <<dec_pc, i_last_pts, i_max_stop, p_block,
                                         p_spu, spus, n_flush>>
                     ELSE /\ spus' = Append(spus,
                                       [i_start |-> block.i_pts,
                                        i_stop |-> SpuStop(i_max_stop, block),
                                        epoch |-> n_flush, state |-> "new",
                                        regions |-> <<>>])
                          /\ p_spu' = Len(spus) + 1
                          /\ i_max_stop' = SpuStop(i_max_stop, block)
                          /\ p_block' = block
                          /\ dec_pc' = "hold_lock"
                          /\ dec_ret' = "created"
                          /\ UNCHANGED <<i_last_pts, n_flush>>
                ELSE /\ p_block' = block
                     /\ p_spu' = 0
                     /\ dec_pc' = "chunk_lock"
                     /\ dec_ret' = "same_pts"
                     /\ UNCHANGED <<i_last_pts, i_max_stop, spus, n_flush>>
    /\ UNCHANGED <<spu_pc, mutex, i_refcount, spu_cur, spu_path, n_chunks, n_freed>>
    /\ UNCHANGED <<bvars, uvars, dvars>>

\* DecSysHold, line 292
DecHoldLock ==
    /\ dec_pc = "hold_lock"
    /\ mutex = "none"
    /\ mutex' = "dec"
    /\ dec_pc' = "hold_inc"
    /\ Touch
    /\ UNCHANGED <<spu_pc, i_refcount, i_last_pts, i_max_stop, p_block, p_spu, spus,
                   spu_cur, spu_path, n_blocks, n_flush, n_chunks, n_freed, dec_ret>>
    /\ UNCHANGED <<bvars, uvars, dvars>>

\* DecSysHold, line 293: the reference of the subpicture DecodeBlock returns
DecHoldInc ==
    /\ dec_pc = "hold_inc"
    /\ i_refcount' = i_refcount + 1
    /\ spus' = [spus EXCEPT ![p_spu].state = "held"]
    /\ dec_pc' = "hold_unlock"
    /\ Touch
    /\ UNCHANGED <<spu_pc, mutex, i_last_pts, i_max_stop, p_block, p_spu,
                   spu_cur, spu_path, n_blocks, n_flush, n_chunks, n_freed, dec_ret>>
    /\ UNCHANGED <<bvars, uvars, dvars>>

\* DecSysHold, line 294
DecHoldUnlock ==
    /\ dec_pc = "hold_unlock"
    /\ mutex' = "none"
    /\ dec_pc' = "chunk_lock"
    /\ Touch
    /\ UNCHANGED <<spu_pc, i_refcount, i_last_pts, i_max_stop, p_block, p_spu, spus,
                   spu_cur, spu_path, n_blocks, n_flush, n_chunks, n_freed, dec_ret>>
    /\ UNCHANGED <<bvars, uvars, dvars>>

\* DecodeBlock, lines 394-396: i_last_pts and the lock
DecChunkLock ==
    /\ dec_pc = "chunk_lock"
    /\ mutex = "none"
    /\ mutex' = "dec"
    /\ i_last_pts' = p_block.i_pts
    /\ dec_pc' = "chunk"
    /\ Touch
    /\ UNCHANGED <<spu_pc, i_refcount, i_max_stop, p_block, p_spu, spus,
                   spu_cur, spu_path, n_blocks, n_flush, n_chunks, n_freed, dec_ret>>
    /\ UNCHANGED <<bvars, uvars, dvars>>

\* DecodeBlock, lines 397-401: ass_process_chunk on the track
DecChunk ==
    /\ dec_pc = "chunk"
    /\ n_chunks' = n_chunks + 1
    /\ dec_pc' = "chunk_unlock"
    /\ Touch
    /\ UNCHANGED <<spu_pc, mutex, i_refcount, i_last_pts, i_max_stop, p_block, p_spu,
                   spus, spu_cur, spu_path, n_blocks, n_flush, n_freed, dec_ret>>
    /\ UNCHANGED <<bvars, uvars, dvars>>

\* DecodeBlock, line 402
DecChunkUnlock ==
    /\ dec_pc = "chunk_unlock"
    /\ mutex' = "none"
    /\ dec_pc' = "queue"
    /\ Touch
    /\ UNCHANGED <<spu_pc, i_refcount, i_last_pts, i_max_stop, p_block, p_spu, spus,
                   spu_cur, spu_path, n_blocks, n_flush, n_chunks, n_freed, dec_ret>>
    /\ UNCHANGED <<bvars, uvars, dvars>>

\* DecodeBlock, lines 404-409: the subpicture, if any, goes to the consumer
DecQueue ==
    /\ dec_pc = "queue"
    /\ spus' = IF p_spu # 0 THEN [spus EXCEPT ![p_spu].state = "queued"] ELSE spus
    /\ p_spu' = 0
    /\ p_block' = <<>>
    /\ dec_pc' = "idle"
    /\ UNCHANGED <<spu_pc, mutex, i_refcount, i_last_pts, i_max_stop, spu_cur,
                   spu_path, n_blocks, n_flush, n_chunks, n_freed, b_stale, dec_ret>>
    /\ UNCHANGED <<bvars, uvars, dvars>>

\* DecSysRelease frees at the count that is reached at line 300 ...
LastRelease_AtOne(count) == ~(count > 1)

\* DecSysRelease, line 301: "if( p_sys->i_refcount > 0 ) ... return"
LastRelease(count) == ~(count > 0)

\* Destroy: DecSysRelease, line 299
DecDestroy ==
    /\ dec_pc = "idle"
    /\ mutex = "none"
    /\ mutex' = "dec"
    /\ dec_pc' = "rel_dec"
    /\ dec_ret' = "destroy"
    /\ Touch
    /\ UNCHANGED <<spu_pc, i_refcount, i_last_pts, i_max_stop, p_block, p_spu, spus,
                   spu_cur, spu_path, n_blocks, n_flush, n_chunks, n_freed>>
    /\ UNCHANGED <<bvars, uvars, dvars>>

\* DecSysRelease, lines 300-301, for the decoder
DecRelDec ==
    /\ dec_pc = "rel_dec"
    /\ i_refcount' = i_refcount - 1
    /\ dec_pc' = IF LastRelease(i_refcount') THEN "rel_unlock_free" ELSE "rel_unlock_ret"
    /\ Touch
    /\ UNCHANGED <<spu_pc, mutex, i_last_pts, i_max_stop, p_block, p_spu, spus,
                   spu_cur, spu_path, n_blocks, n_flush, n_chunks, n_freed, dec_ret>>
    /\ UNCHANGED <<bvars, uvars, dvars>>

\* DecSysRelease, lines 303-304 or 306, for the decoder
DecRelUnlock ==
    /\ dec_pc \in { "rel_unlock_free", "rel_unlock_ret" }
    /\ mutex' = "none"
    /\ dec_pc' = IF dec_pc = "rel_unlock_free" THEN "rel_free" ELSE "destroyed"
    /\ Touch
    /\ UNCHANGED <<spu_pc, i_refcount, i_last_pts, i_max_stop, p_block, p_spu, spus,
                   spu_cur, spu_path, n_blocks, n_flush, n_chunks, n_freed, dec_ret>>
    /\ UNCHANGED <<bvars, uvars, dvars>>

\* DecSysRelease, lines 308-315, for the decoder: track, renderer, library
\* and decoder_sys_t are freed
DecRelFree ==
    /\ dec_pc = "rel_free"
    /\ n_freed' = n_freed + 1
    /\ dec_pc' = "destroyed"
    /\ Touch
    /\ UNCHANGED <<spu_pc, mutex, i_refcount, i_last_pts, i_max_stop, p_block, p_spu,
                   spus, spu_cur, spu_path, n_blocks, n_flush, n_chunks, dec_ret>>
    /\ UNCHANGED <<bvars, uvars, dvars>>

\* what ass_render_frame hands to the consumer's passes
SysFrames == { <<>>, <<Img(0, 0, 10, 10)>> }

\* the subpictures the consumer holds
Queued == { s \in 1..Len(spus) : spus[s].state = "queued" }

\* SubpictureUpdate, lines 418-427: the lock
SpuUpdLock ==
    /\ spu_pc = "idle"
    /\ mutex = "none"
    /\ \E s \in Queued : spu_cur' = s
    /\ mutex' = "spu"
    /\ spu_pc' = "upd_body"
    /\ spu_path' = "none"
    /\ Touch
    /\ UNCHANGED <<dec_pc, i_refcount, i_last_pts, i_max_stop, p_block, p_spu, spus,
                   n_blocks, n_flush, n_chunks, n_freed, dec_ret>>
    /\ UNCHANGED <<bvars, uvars, dvars>>

\* SubpictureUpdate, lines 429-508, up to the unlock of the path taken:
\* the rendering, the skip test, regions_Clear, BuildRegions and the loop.
\* n_new is the number of calls of subpicture_region_New that succeed.
UpdatePass(regs, changed, fmt_src, fmt_dst, img_list, calloc_ok, n_new) ==
    IF SkipPass(changed, fmt_src, fmt_dst, img_list, regs)
    THEN [path |-> "skip", regions |-> regs]
    ELSE LET R == BuildRegions(UpdMaxRegion, img_list, DstWidth, DstHeight, calloc_ok)
         IN IF R.ret <= 0
            THEN [path |-> "noregion", regions |-> <<>>]
            ELSE [path |-> IF n_new < R.ret THEN "break" ELSE "done",
                  regions |-> [j \in 1..Min(n_new, R.ret) |-> R.p_region[j - 1]]]

SpuUpdBody ==
    /\ spu_pc = "upd_body"
    /\ \E changed \in BOOLEAN, fmt_src \in BOOLEAN, fmt_dst \in BOOLEAN,
          img_list \in SysFrames, calloc_ok \in BOOLEAN :
       \E n_new \in 0..Len(img_list) :
         LET P == UpdatePass(spus[spu_cur].regions, changed, fmt_src, fmt_dst,
                             img_list, calloc_ok, n_new)
         IN /\ spu_path' = P.path
            /\ spus' = [spus EXCEPT ![spu_cur].regions = P.regions]
    /\ spu_pc' = "upd_unlock"
    /\ Touch
    /\ UNCHANGED <<dec_pc, mutex, i_refcount, i_last_pts, i_max_stop, p_block, p_spu,
                   spu_cur, n_blocks, n_flush, n_chunks, n_freed, dec_ret>>
    /\ UNCHANGED <<bvars, uvars, dvars>>

\* ... but for the return on zero regions
UnlocksOn_NotNoRegion(path) == path \in { "skip", "done", "break" }

\* the return paths of SubpictureUpdate that unlock: line 453 (skip),
\* line 475 (zero regions), line 509 (the loop is over, or was left by break)
UnlocksOn(path) == path \in { "skip", "noregion", "done", "break" }

\* SubpictureUpdate: the unlock and the return
SpuUpdUnlock ==
    /\ spu_pc = "upd_unlock"
    /\ mutex' = IF UnlocksOn(spu_path) THEN "none" ELSE mutex
    /\ spu_pc' = "idle"
    /\ spu_cur' = 0
    /\ Touch
    /\ UNCHANGED <<dec_pc, i_refcount, i_last_pts, i_max_stop, p_block, p_spu, spus,
                   spu_path, n_blocks, n_flush, n_chunks, n_freed, dec_ret>>
    /\ UNCHANGED <<bvars, uvars, dvars>>

\* SubpictureDestroy: DecSysRelease, line 299
SpuDestroy ==
    /\ spu_pc = "idle"
    /\ mutex = "none"
    /\ \E s \in Queued : spu_cur' = s
    /\ mutex' = "spu"
    /\ spu_pc' = "rel_dec"
    /\ spu_path' = "none"
    /\ Touch
    /\ UNCHANGED <<dec_pc, i_refcount, i_last_pts, i_max_stop, p_block, p_spu, spus,
                   n_blocks, n_flush, n_chunks, n_freed, dec_ret>>
    /\ UNCHANGED <<bvars, uvars, dvars>>

\* DecSysRelease, lines 300-301, for a subpicture
SpuRelDec ==
    /\ spu_pc = "rel_dec"
    /\ i_refcount' = i_refcount - 1
    /\ spus' = [spus EXCEPT ![spu_cur].state = "dropped"]
    /\ spu_pc' = IF LastRelease(i_refcount') THEN "rel_unlock_free" ELSE "rel_unlock_ret"
    /\ Touch
    /\ UNCHANGED <<dec_pc, mutex, i_last_pts, i_max_stop, p_block, p_spu,
                   spu_cur, spu_path, n_blocks, n_flush, n_chunks, n_freed, dec_ret>>
    /\ UNCHANGED <<bvars, uvars, dvars>>

\* DecSysRelease, lines 303-304 or 306, for a subpicture
SpuRelUnlock ==
    /\ spu_pc \in { "rel_unlock_free", "rel_unlock_ret" }
    /\ mutex' = "none"
    /\ spu_pc' = IF spu_pc = "rel_unlock_free" THEN "rel_free" ELSE "free_spusys"
    /\ Touch
    /\ UNCHANGED <<dec_pc, i_refcount, i_last_pts, i_max_stop, p_block, p_spu, spus,
                   spu_cur, spu_path, n_blocks, n_flush, n_chunks, n_freed, dec_ret>>
    /\ UNCHANGED <<bvars, uvars, dvars>>

\* DecSysRelease, lines 308-315, for a subpicture
SpuRelFree ==
    /\ spu_pc = "rel_free"
    /\ n_freed' = n_freed + 1
    /\ spu_pc' = "free_spusys"
    /\ Touch
    /\ UNCHANGED <<dec_pc, mutex, i_refcount, i_last_pts, i_max_stop, p_block, p_spu,
                   spus, spu_cur, spu_path, n_blocks, n_flush, n_chunks, dec_ret>>
    /\ UNCHANGED <<bvars, uvars, dvars>>

\* SubpictureDestroy, line 517
SpuFreeSys ==
    /\ spu_pc = "free_spusys"
    /\ spus' = [spus EXCEPT ![spu_cur].state = "destroyed"]
    /\ spu_pc' = "idle"
    /\ spu_cur' = 0
    /\ UNCHANGED <<dec_pc, mutex, i_refcount, i_last_pts, i_max_stop, p_block, p_spu,
                   spu_path, n_blocks, n_flush, n_chunks, n_freed, b_stale, dec_ret>>
    /\ UNCHANGED <<bvars, uvars, dvars>>

NextSys ==
    \/ Flush
    \/ DecodeEnter
    \/ DecHoldLock
    \/ DecHoldInc
    \/ DecHoldUnlock
    \/ DecChunkLock
    \/ DecChunk
    \/ DecChunkUnlock
    \/ DecQueue
    \/ DecDestroy
    \/ DecRelDec
    \/ DecRelUnlock
    \/ DecRelFree
    \/ SpuUpdLock
    \/ SpuUpdBody
    \/ SpuUpdUnlock
    \/ SpuDestroy
    \/ SpuRelDec
    \/ SpuRelUnlock
    \/ SpuRelFree
    \/ SpuFreeSys

SpecSys == InitSys /\ [][NextSys]_vars

\* the steps of the decoder thread inside a call
DecStep ==
    \/ DecHoldLock
    \/ DecHoldInc
    \/ DecHoldUnlock
    \/ DecChunkLock
    \/ DecChunk
    \/ DecChunkUnlock
    \/ DecQueue
    \/ DecRelDec
    \/ DecRelUnlock
    \/ DecRelFree

\* the steps of the consumer's thread inside a call
SpuStep ==
    \/ SpuUpdBody
    \/ SpuUpdUnlock
    \/ SpuRelDec
    \/ SpuRelUnlock
    \/ SpuRelFree
    \/ SpuFreeSys

\* SpecSys with threads that go on running: a thread inside a call takes
\* its next step when that step stays possible.  When a call is made is
\* left to the callers.
SpecSysFair == InitSys /\ [][NextSys]_vars /\ WF_vars(DecStep) /\ WF_vars(SpuStep)

\* the subpictures that hold a reference: from line 293 to line 300
Holding == { s \in 1..Len(spus) : spus[s].state \in { "held", "queued" } }

\* the decoder holds the reference of Create until line 300 of its Destroy
DecoderHolds ==
    IF dec_pc \in { "rel_unlock_free", "rel_unlock_ret", "rel_free", "destroyed" }
    THEN 0 ELSE 1

-----------------------------------------------------------------------------
(* Claims on the decoder and the subpicture consumer *)

\* a call of DecodeBlock or Flush starts in this step
CallStep == n_blocks' = n_blocks + 1

\* this step creates a subpicture
CreateStep == Len(spus') = Len(spus) + 1

\* the subpicture a CreateStep creates
Created == spus'[Len(spus')]

\* C25: over any sequence of DecodeBlock and Flush calls, a subpicture is
\* created only for a block that is not empty and not corrupted and whose
\* pts differs from i_last_pts; its stop time is the maximum of i_max_stop
\* and pts + length, so it is at least pts + length and at least the stop
\* time of the subpicture created before it since the last reset; Flush and
\* a corrupted block set i_max_stop and i_last_pts to invalid; a call in
\* which an allocation fails leaves i_last_pts, i_max_stop and i_refcount
\* as they were and returns.
C25_SubpictureTiming ==
    /\ [][CreateStep =>
            /\ CallStep
            /\ p_block'.kind = "data"
            /\ p_block'.i_pts # i_last_pts
            /\ Created.i_start = p_block'.i_pts
            /\ Created.i_stop = Max(i_max_stop, p_block'.i_pts + p_block'.i_length)
            /\ Created.i_stop >= p_block'.i_pts + p_block'.i_length
            /\ i_max_stop' = Created.i_stop
            /\ \A s \in 1..Len(spus) :
                 spus[s].epoch = Created.epoch => spus[s].i_stop <= Created.i_stop]_vars
    /\ [][(CallStep /\ dec_ret' \in { "flush", "corrupted" }) =>
            /\ i_max_stop' = VLC_TICK_INVALID
            /\ i_last_pts' = VLC_TICK_INVALID
            /\ n_flush' = n_flush + 1]_vars
    /\ [][(CallStep /\ dec_ret' \notin { "flush", "corrupted" }) =>
            n_flush' = n_flush]_vars
    /\ [][(CallStep /\ dec_ret' = "nomem") =>
            /\ UNCHANGED <<i_last_pts, i_max_stop, i_refcount, spus>>
            /\ dec_pc' = "idle"]_vars

\* C25 witness: the second of two subpictures created with no reset between
\* them stops at 4, the stop time of the first, though its block ends at 2
C25_Witness ==
    /\ Len(spus) = 2
    /\ spus[1].epoch = spus[2].epoch
    /\ spus[1].i_stop = 4
    /\ spus[2].i_start = 2
    /\ spus[2].i_stop = 4
    /\ i_max_stop = 4
    /\ i_last_pts = 2

\* neither thread is inside a call
Quiescent == dec_pc \in { "idle", "destroyed" } /\ spu_pc = "idle"

\* the subpictures created and not yet destroyed
NotDestroyed == { s \in 1..Len(spus) : spus[s].state # "destroyed" }

C21_WitnessUpdateAfterDestroy ==
    /\ dec_pc = "destroyed"
    /\ spu_pc = "upd_body"
    /\ i_refcount = 1
    /\ n_freed = 0

\* the positions at which the decoder thread holds p_sys->lock
DecLocked ==
    dec_pc \in { "hold_inc", "hold_unlock", "chunk", "chunk_unlock", "rel_dec",
                 "rel_unlock_free", "rel_unlock_ret" }

\* the positions at which the consumer's thread holds p_sys->lock
SpuLocked ==
    spu_pc \in { "upd_body", "upd_unlock", "rel_dec", "rel_unlock_free",
                 "rel_unlock_ret" }

\* C22: in every interleaving the lock is held by exactly the thread that
\* is between a lock and its unlock, so ass_process_chunk in DecodeBlock
\* and the section of SubpictureUpdate from the rendering to the last
\* region never run together; a SubpictureUpdate that returned, by any of
\* its paths (skip, zero regions, end of the loop, break on a failed
\* allocation), holds no lock; and a lock that is held is released, so the
\* lock is found free again by later calls.
C22_LockExcludesAndIsReleased ==
    /\ [](/\ (mutex = "dec") = DecLocked
          /\ (mutex = "spu") = SpuLocked
          /\ ~(DecLocked /\ SpuLocked)
          /\ ~(dec_pc = "chunk" /\ spu_pc = "upd_body")
          /\ Quiescent => mutex = "none"
          /\ spu_pc = "upd_unlock" => spu_path \in { "skip", "noregion", "done", "break" })
    /\ (mutex # "none") ~> (mutex = "none")
    /\ [][(spu_pc = "upd_unlock" /\ spu_pc' = "idle") => mutex' = "none"]_vars

\* C22 witness: a SubpictureUpdate left its loop by break and returned;
\* DecodeBlock then took the lock and is feeding its chunk
C22_Witness ==
    /\ spu_path = "break"
    /\ spu_pc = "idle"
    /\ dec_pc = "chunk"
    /\ mutex = "dec"

\* C22, the other return paths: DecodeBlock waits for the lock while a
\* SubpictureUpdate that skips, has zero regions, or ends its loop holds it
C22_WitnessSkip ==
    spu_path = "skip" /\ spu_pc = "upd_unlock" /\ dec_pc = "chunk_lock" /\ mutex = "spu"

C22_WitnessNoRegion ==
    spu_path = "noregion" /\ spu_pc = "upd_unlock" /\ dec_pc = "chunk_lock" /\ mutex = "spu"

C22_WitnessDone ==
    spu_path = "done" /\ spu_pc = "upd_unlock" /\ dec_pc = "chunk_lock" /\ mutex = "spu"

=============================================================================
